---- MODULE Spec2Model ----
(***************************************************************************)
(* A model of the Neuralangelo GUI backend: the training job manager       *)
(* (backend/training_manager.py), the websocket connection manager         *)
(* (backend/server.py) and the COLMAP pipeline (backend/colmap_wrapper.py).*)
(*                                                                         *)
(* The backend runs on one asyncio event loop: a coroutine runs without    *)
(* interruption from one await to the next, so every action below is the   *)
(* code between two suspension points of one coroutine.  The training      *)
(* processes, their pipes and the asyncio subprocess transport are the     *)
(* environment; their steps are actions of their own.                      *)
(***************************************************************************)
EXTENDS Integers, Sequences, FiniteSets, Bags, TLC

(***************************************************************************)
(* Bounds of the model.                                                    *)
(***************************************************************************)
MaxProcs == 2    \* training processes spawned in one run
MaxLines == 1    \* lines the training processes write to stdout in one run
MaxMonitored == 2   \* lines they write when only the monitoring is followed
MaxCalls == 3    \* control calls (start, pause, resume, stop) in one run
MaxSockets == 2  \* websocket connections made in one run
MaxOrdered == 2   \* events broadcast when only their delivery is followed
MaxEvents == 1   \* events broadcast in one run
MaxTexts == 2    \* text messages the websocket clients send in one run
MaxParts == 2    \* comma-separated parts of an output line given to the parser

Procs == 1..MaxProcs

\* Project names (the scene_name of a configuration).
Projects == {"a", "b"}

\* The lines a training process may print: one that carries both markers,
\* one plain log line, and one whose bytes do not decode.
Lines == {"iter: 1, loss: 2", "starting worker pool", "undecodable"}

VARIABLES
    active_trainings,   \* TrainingManager.active_trainings: project -> record
    procState,          \* each spawned process and its asyncio transport
    procProject,        \* the project_name its monitoring routine was given
    stdout,             \* lines written to stdout and not read yet
    written,            \* how many lines the processes have written
    mon,                \* position of _monitor_training for the process
    monLine,            \* the line the monitoring routine is handling
    stopCall,           \* position of a stop_training call, per project
    published,          \* the events handed to websocket_manager.broadcast
    calls,              \* how many control calls were made
    pausedAt,           \* per project: what the last pause_training call found
    exitStatus,         \* the exit status of each process, where followed
    project_path,       \* the project of the train route that started each
    stderrHeld,         \* the stderr pipe of the process will not report its end
    status_reply,       \* what get_status returned in the step just taken
    last                \* what the step just taken was

VARIABLES
    parseLine,          \* the output line given to _parse_training_output
    parseOrigin,        \* how the line was made
    parseOutcome        \* what _parse_training_output did with it

VARIABLES
    colmapPc,           \* position of COLMAPProcessor.process
    colmapArgs,         \* the camera_model and quality it was called with
    launched,           \* the COLMAP commands launched, in order
    returncodes,        \* the exit codes of the commands that have ended
    sparse_path,        \* listing of the sparse directory, in glob order
    reconstruction,     \* the files of the reconstruction folder as read
    statistics_path,    \* the sparse directory as _get_statistics found it
    statistics,         \* what _get_statistics computed, if it was called
    densePc,            \* position of COLMAPProcessor.dense_reconstruction
    denseLaunched,      \* the commands it has launched, in order
    denseCodes          \* the exit codes of those that have ended

VARIABLES
    active_connections, \* ConnectionManager.active_connections
    sock,               \* each websocket connection, as its client has it
    handler,            \* position of websocket_endpoint for the connection
    texts,              \* how many text messages the clients have sent
    textsOf,            \* the text messages each client has sent, in order
    inbox,              \* the frames of each client not yet received
    data,               \* the text the endpoint of the connection has received
    received,           \* the messages delivered to each client
    bc,                 \* the frame of the broadcast call in progress
    sent,               \* how many events were given to broadcast
    broadcasts          \* the broadcast calls that have returned

trainVars == <<active_trainings, procState, procProject, stdout, written,
               mon, monLine, stopCall, published, calls, pausedAt, stderrHeld,
               exitStatus, project_path, status_reply, last>>

colmapVars == <<colmapPc, colmapArgs, launched, returncodes, sparse_path,
                reconstruction, statistics_path, statistics, densePc,
                denseLaunched, denseCodes>>

connVars == <<active_connections, sock, handler, texts, textsOf, inbox, data,
              received, bc, sent, broadcasts>>

parseVars == <<parseLine, parseOrigin, parseOutcome>>

vars == <<trainVars, colmapVars, connVars, parseVars>>

(***************************************************************************)
(* Text.  A str is the sequence of its characters; the operators below     *)
(* are str.strip, str.split, the "in" of two strs, int(str) and            *)
(* float(str) on ASCII text.  A float is its decimal value man * 10^exp    *)
(* with man not a multiple of 10, or one of the special values; the        *)
(* rounding of float to 53 bits is not modelled.                           *)
(***************************************************************************)
Whitespace == {" ", "\t", "\n", "\r"}
Digits == {"0", "1", "2", "3", "4", "5", "6", "7", "8", "9"}

DigitValue(c) ==
    CASE c = "0" -> 0 [] c = "1" -> 1 [] c = "2" -> 2 [] c = "3" -> 3
      [] c = "4" -> 4 [] c = "5" -> 5 [] c = "6" -> 6 [] c = "7" -> 7
      [] c = "8" -> 8 [] c = "9" -> 9

\* str.lower on the letters of "infinity" and "nan" and on "e".
Lower(c) ==
    CASE c = "I" -> "i" [] c = "N" -> "n" [] c = "F" -> "f" [] c = "T" -> "t"
      [] c = "Y" -> "y" [] c = "A" -> "a" [] c = "E" -> "e" [] OTHER -> c

LowerAll(s) == [i \in 1..Len(s) |-> Lower(s[i])]

\* sub in s
In(sub, s) ==
    \E i \in 1..(Len(s) - Len(sub) + 1) :
        \A k \in 1..Len(sub) : s[i + k - 1] = sub[k]

\* The places of the character c in s.
Places(s, c) == {i \in 1..Len(s) : s[i] = c}

Min(S) == CHOOSE i \in S : \A h \in S : i <= h

\* s.strip()
strip(s) ==
    LET kept == {i \in 1..Len(s) : s[i] \notin Whitespace}
    IN  IF kept = {} THEN <<>>
        ELSE SubSeq(s, Min(kept), CHOOSE i \in kept : \A h \in kept : h <= i)

\* s.split(sep) for a separator of one character.
RECURSIVE split(_, _)
split(s, sep) ==
    IF Places(s, sep) = {}
    THEN <<s>>
    ELSE LET i == Min(Places(s, sep))
         IN  <<SubSeq(s, 1, i - 1)>> \o split(SubSeq(s, i + 1, Len(s)), sep)

\* A run of digits, single underscores allowed between two digits.
DigitPart(s) ==
    /\ Len(s) > 0
    /\ \A i \in 1..Len(s) : s[i] \in Digits \cup {"_"}
    /\ s[1] \in Digits /\ s[Len(s)] \in Digits
    /\ \A i \in 1..(Len(s) - 1) : ~(s[i] = "_" /\ s[i + 1] = "_")

RECURSIVE NatValue(_)
NatValue(s) ==
    IF s = <<>> THEN 0
    ELSE IF s[Len(s)] = "_" THEN NatValue(SubSeq(s, 1, Len(s) - 1))
    ELSE 10 * NatValue(SubSeq(s, 1, Len(s) - 1)) + DigitValue(s[Len(s)])

\* How many digits a digit part has.
DigitCount(s) == Cardinality({i \in 1..Len(s) : s[i] \in Digits})

HasSign(s) == Len(s) > 0 /\ s[1] \in {"+", "-"}
Unsigned(s) == IF HasSign(s) THEN Tail(s) ELSE s
Sign(s) == IF Len(s) > 0 /\ s[1] = "-" THEN -1 ELSE 1

\* int(s): ValueError unless s, stripped, is an optional sign and a digit
\* part.
IntRaises(s) == ~DigitPart(Unsigned(strip(s)))
IntValue(s) == Sign(strip(s)) * NatValue(Unsigned(strip(s)))

Float(man, exp) == [kind |-> "finite", man |-> man, exp |-> exp]
Special(kind) == [kind |-> kind, man |-> 0, exp |-> 0]

RECURSIVE Normal(_, _)
Normal(man, exp) ==
    IF man = 0 THEN Float(0, 0)
    ELSE IF man % 10 = 0 THEN Normal(man \div 10, exp + 1)
    ELSE Float(man, exp)

\* The text of a float without its sign, in lower case: the mantissa
\* before an "e", its digits before and after a ".", and the exponent.
Mantissa(u) == IF Places(u, "e") = {} THEN u
               ELSE SubSeq(u, 1, Min(Places(u, "e")) - 1)
Exponent(u) == SubSeq(u, Min(Places(u, "e")) + 1, Len(u))
Whole(m) == IF Places(m, ".") = {} THEN m
            ELSE SubSeq(m, 1, Min(Places(m, ".")) - 1)
Fraction(m) == IF Places(m, ".") = {} THEN <<>>
               ELSE SubSeq(m, Min(Places(m, ".")) + 1, Len(m))

MantissaValid(m) ==
    IF Places(m, ".") = {}
    THEN DigitPart(m)
    ELSE /\ Whole(m) = <<>> \/ DigitPart(Whole(m))
         /\ Fraction(m) = <<>> \/ DigitPart(Fraction(m))
         /\ Whole(m) # <<>> \/ Fraction(m) # <<>>

IsSpecial(u) ==
    u \in {<<"i", "n", "f">>, <<"n", "a", "n">>,
           <<"i", "n", "f", "i", "n", "i", "t", "y">>}

\* float(s): ValueError unless s, stripped, is an optional sign and then
\* inf, infinity or nan, or a decimal number with an optional exponent.
FloatRaises(s) ==
    LET u == LowerAll(Unsigned(strip(s)))
    IN  ~ \/ IsSpecial(u)
          \/ /\ MantissaValid(Mantissa(u))
             /\ Places(u, "e") # {} => DigitPart(Unsigned(Exponent(u)))

FloatValue(s) ==
    LET t == strip(s)
        u == LowerAll(Unsigned(t))
        m == Mantissa(u)
        e == IF Places(u, "e") = {} THEN 0
             ELSE Sign(Exponent(u)) * NatValue(Unsigned(Exponent(u)))
    IN  IF u = <<"n", "a", "n">> THEN Special("nan")
        ELSE IF IsSpecial(u)
        THEN Special(IF Sign(t) < 0 THEN "-inf" ELSE "inf")
        ELSE Normal(Sign(t) * NatValue(Whole(m) \o Fraction(m)),
                    e - DigitCount(Fraction(m)))

(***************************************************************************)
(* Values.                                                                 *)
(***************************************************************************)
NoLine == "none"
NoProject == "none"

\* What get_status answers for a project without a record, padded with the
\* fields of a record so that it compares with one.
NotStarted == [process |-> 0, status |-> "not_started", iteration |-> 0,
               loss |-> Float(0, 0), config |-> [scene_name |-> NoProject]]

\* None, where a record of iteration and loss is expected.
NoProgress == <<>>

\* No control call was the step just taken.
Idle == [op |-> "none", proj |-> NoProject, res |-> "none", sig |-> FALSE,
         via |-> "none", from |-> "none", pre |-> NotStarted]

NoSnapshot == [status |-> "none", iteration |-> -1, loss |-> Float(0, 0)]

\* No get_status call was the step just taken.
NoReply == <<>>

\* The exit status of a training process that ends by itself: success, or
\* a failure (1 stands for every code but 0, a SIGTERM acted on included).
\* No handler reads the exit status: a specification that has no use for
\* it leaves it out.
TrainingExitCodes == {<<0>>, <<1>>}
NotFollowed == <<>>

NoStop == [pc |-> "idle", process |-> 0, from |-> "none"]

\* An event handed to broadcast: its type and its project, the characters
\* of the message of a training_log or training_error event and, in a
\* sequence of one, the data of a training_progress event.
Event(type, project) ==
    [type |-> type, project |-> project, message |-> <<>>, data |-> <<>>]

ProgressEvent(project, progress) ==
    [Event("training_progress", project) EXCEPT !.data = <<progress>>]

LogEvent(project, text) ==
    [Event("training_log", project) EXCEPT !.message = text]

\* str(e) of the exception stands for itself.
ErrorEvent(project) ==
    [Event("training_error", project)
        EXCEPT !.message = <<"s", "t", "r", "(", "e", ")">>]

\* await websocket_manager.broadcast(event), which never raises.
Publish(event) == published (+) SetToBag({event})

(***************************************************************************)
(* TrainingManager.                                                        *)
(***************************************************************************)
TrainInit ==
    /\ active_trainings = [q \in {} |-> NotStarted]
    /\ procState = [j \in Procs |-> "unborn"]
    /\ procProject = [j \in Procs |-> NoProject]
    /\ stdout = [j \in Procs |-> <<>>]
    /\ written = 0
    /\ mon = [j \in Procs |-> "unborn"]
    /\ monLine = [j \in Procs |-> NoLine]
    /\ stopCall = [p \in Projects |-> NoStop]
    /\ published = EmptyBag
    /\ calls = 0
    /\ pausedAt = [p \in Projects |-> NoSnapshot]
    /\ stderrHeld = [j \in Procs |-> FALSE]
    /\ exitStatus = [j \in Procs |-> NotFollowed]
    /\ project_path = [j \in Procs |-> NoProject]
    /\ status_reply = NoReply
    /\ last = Idle

\* get_status: the record of the project, or "not_started".
get_status(project_name) ==
    IF project_name \in DOMAIN active_trainings
    THEN active_trainings[project_name]
    ELSE NotStarted

\* active_trainings[project_name] = record
SetRecord(project_name, record) ==
    [q \in DOMAIN active_trainings \cup {project_name} |->
        IF q = project_name THEN record ELSE active_trainings[q]]

\* A step of a control call, as the step just taken: the call and its
\* project, whether it is pending, returned ("ok") or raised, whether the
\* step delivered a signal, the path of a stop_training call, the status
\* the call found when it began and the record before the step.
Call(op, p, res, sig, via, from, pre) ==
    [op |-> op, proj |-> p, res |-> res, sig |-> sig, via |-> via,
     from |-> from, pre |-> pre]

\* What the observer of the control calls keeps of a step of a call for
\* project p: pausedAt[p] holds the status, iteration and loss found by a
\* pause_training call that returned; a resume_training call leaves it and
\* a step of any other call for p clears it.
Observe(op, res, p) ==
    pausedAt' = [pausedAt EXCEPT ![p] =
        IF op = "pause" /\ res = "ok" /\ p \in DOMAIN active_trainings
        THEN [status |-> active_trainings[p].status,
              iteration |-> active_trainings[p].iteration,
              loss |-> active_trainings[p].loss]
        ELSE IF op = "resume" THEN @
        ELSE NoSnapshot]

Spawned == {j \in Procs : procState[j] # "unborn"}

\* The record start_training stores for a new job.
NewRecord(process, config) ==
    [process |-> process, status |-> "running", iteration |-> 0,
     loss |-> Float(0, 0),
     config |-> config]

\* The train route for the project of the given name calls start_training
\* with a configuration whose scene_name is p.  start_training up to its
\* first suspension: the configuration file is written, the command is
\* prepared and create_subprocess_exec has forked the process; the call
\* now awaits the transport.
StartSpawn(p, project_name) ==
    /\ calls < MaxCalls
    /\ calls' = calls + 1
    /\ Cardinality(Spawned) < MaxProcs
    /\ LET j == Cardinality(Spawned) + 1 IN
        /\ procState' = [procState EXCEPT ![j] = "running"]
        /\ procProject' = [procProject EXCEPT ![j] = p]
        /\ mon' = [mon EXCEPT ![j] = "spawning"]
        /\ project_path' = [project_path EXCEPT ![j] = project_name]
    /\ last' = Call("start", p, "pending", FALSE, "none", get_status(p).status,
                        get_status(p))
    /\ Observe("start", "pending", p)
    /\ UNCHANGED <<active_trainings, stdout, written, monLine, stopCall,
                   published>>
    /\ status_reply' = NoReply
    /\ UNCHANGED <<stderrHeld, exitStatus>>
    /\ UNCHANGED <<colmapVars, connVars, parseVars>>

\* start_training after create_subprocess_exec returned: the record is
\* stored under the project name, whatever is stored there, the
\* monitoring routine is created and the call returns.
StartRegister(j) ==
    /\ mon[j] = "spawning"
    /\ LET p == procProject[j] IN
        /\ active_trainings' =
               SetRecord(p, NewRecord(j, [scene_name |-> p]))
        /\ last' = Call("start", p, "ok", FALSE, "none", get_status(p).status,
                        get_status(p))
        /\ Observe("start", "ok", p)
    /\ mon' = [mon EXCEPT ![j] = "read"]
    /\ UNCHANGED <<procState, procProject, stdout, written, monLine,
                   stopCall, published, calls>>
    /\ status_reply' = NoReply
    /\ UNCHANGED <<stderrHeld, exitStatus, project_path>>
    /\ UNCHANGED <<colmapVars, connVars, parseVars>>

StartFailsRegistered(p) ==
    /\ calls < MaxCalls
    /\ calls' = calls + 1
    /\ active_trainings' =
          SetRecord(p, [get_status(p) EXCEPT !.status = "error"])
    /\ published' = Publish(ErrorEvent(NoProject))
    /\ last' = Call("start", p, "raise", FALSE, "none", get_status(p).status,
                        get_status(p))
    /\ Observe("start", "raise", p)
    /\ UNCHANGED <<procState, procProject, stdout, written, mon, monLine,
                   stopCall>>
    /\ status_reply' = NoReply
    /\ UNCHANGED <<stderrHeld, exitStatus, project_path>>
    /\ UNCHANGED <<colmapVars, connVars, parseVars>>

\* start_training when _generate_config or create_subprocess_exec raises:
\* a training_error event without a project is broadcast and the
\* exception is raised again.
StartFails(p) ==
    /\ calls < MaxCalls
    /\ calls' = calls + 1
    /\ published' = Publish(ErrorEvent(NoProject))
    /\ last' = Call("start", p, "raise", FALSE, "none", get_status(p).status,
                        get_status(p))
    /\ Observe("start", "raise", p)
    /\ UNCHANGED <<active_trainings, procState, procProject, stdout,
                   written, mon, monLine, stopCall>>
    /\ status_reply' = NoReply
    /\ UNCHANGED <<stderrHeld, exitStatus, project_path>>
    /\ UNCHANGED <<colmapVars, connVars, parseVars>>

(***************************************************************************)
(* The training process and its asyncio transport.  A process is running,  *)
(* suspended (SIGSTOP), or dead; once dead, the event loop learns of its   *)
(* exit (the return code is set and the pid reaped) and of the end of its  *)
(* pipes in either order:                                                  *)
(*   zombie  dead, neither known                                           *)
(*   reaped  return code set, stdout still open                            *)
(*   eof     stdout at its end, return code not set                        *)
(*   closed  both                                                          *)
(* The transport is finished when the return code is set and every pipe    *)
(* has reported its end: then its waiters are woken, and terminate and     *)
(* kill raise ProcessLookupError.  stderr is a pipe that nothing reads:    *)
(* once the process has filled the reader's buffer the loop stops reading  *)
(* the pipe and never sees its end.                                        *)
(***************************************************************************)
Alive == {"running", "suspended"}
Unreaped == {"running", "suspended", "zombie", "eof"}

\* BaseSubprocessTransport._try_finish: the return code is set and every
\* pipe is disconnected.
Finished(j) == procState[j] = "closed" /\ ~stderrHeld[j]

\* The process prints a line, while fewer than the given number of lines
\* have been printed in the run.
ProcWrite(j, most) ==
    /\ procState[j] = "running"
    /\ written < most
    /\ \E line \in Lines : stdout' = [stdout EXCEPT ![j] = Append(@, line)]
    /\ written' = written + 1
    /\ last' = Idle
    /\ UNCHANGED <<active_trainings, procState, procProject, mon, monLine,
                   stopCall, published, calls, pausedAt>>
    /\ status_reply' = NoReply
    /\ UNCHANGED <<stderrHeld, exitStatus, project_path>>
    /\ UNCHANGED <<colmapVars, connVars, parseVars>>

\* The process writes more to stderr than the stream reader buffers.
StderrFills(j) ==
    /\ procState[j] = "running"
    /\ ~stderrHeld[j]
    /\ stderrHeld' = [stderrHeld EXCEPT ![j] = TRUE]
    /\ last' = Idle
    /\ UNCHANGED <<active_trainings, procState, procProject, stdout, written,
                   mon, monLine, stopCall, published, calls, pausedAt>>
    /\ status_reply' = NoReply
    /\ UNCHANGED <<exitStatus, project_path, colmapVars, connVars, parseVars>>

\* The process ends: it finishes, fails, or acts on a SIGTERM.
ProcExit(j, status) ==
    /\ procState[j] = "running"
    /\ procState' = [procState EXCEPT ![j] = "zombie"]
    /\ exitStatus' = [exitStatus EXCEPT ![j] = status]
    /\ last' = Idle
    /\ UNCHANGED <<active_trainings, procProject, stdout, written, mon,
                   monLine, stopCall, published, calls, pausedAt>>
    /\ status_reply' = NoReply
    /\ UNCHANGED <<stderrHeld, project_path, colmapVars, connVars, parseVars>>

\* BaseSubprocessTransport._process_exited: the return code is set.
ProcessExited(j) ==
    /\ procState[j] \in {"zombie", "eof"}
    /\ procState' = [procState EXCEPT
           ![j] = IF @ = "zombie" THEN "reaped" ELSE "closed"]
    /\ last' = Idle
    /\ UNCHANGED <<active_trainings, procProject, stdout, written, mon,
                   monLine, stopCall, published, calls, pausedAt>>
    /\ status_reply' = NoReply
    /\ UNCHANGED <<stderrHeld, exitStatus, project_path>>
    /\ UNCHANGED <<colmapVars, connVars, parseVars>>

\* The stdout pipe of the dead process reaches its end.
PipeConnectionLost(j) ==
    /\ procState[j] \in {"zombie", "reaped"}
    /\ procState' = [procState EXCEPT
           ![j] = IF @ = "zombie" THEN "eof" ELSE "closed"]
    /\ last' = Idle
    /\ UNCHANGED <<active_trainings, procProject, stdout, written, mon,
                   monLine, stopCall, published, calls, pausedAt>>
    /\ status_reply' = NoReply
    /\ UNCHANGED <<stderrHeld, exitStatus, project_path>>
    /\ UNCHANGED <<colmapVars, connVars, parseVars>>

(***************************************************************************)
(* _monitor_training.  Its suspension points are readline, the broadcast   *)
(* calls and process.wait; it finds the record by project name each time   *)
(* it touches it.                                                          *)
(***************************************************************************)

ITER == <<"i", "t", "e", "r">>
LOSS == <<"l", "o", "s", "s">>

\* What the loop over the parts has found: the iteration and the loss,
\* each <<>> for None or <<value>>, and whether an exception was raised.
NothingFound == [iteration |-> <<>>, loss |-> <<>>, raised |-> FALSE]

\* part.split(":")[1] raises IndexError for a part without a ":".
FieldRaises(part) == Len(split(part, ":")) < 2

\* A field taken from before the first colon instead of after it.
FieldFirst(part) == strip(split(part, ":")[1])

\* part.split(":")[1].strip()
Field(part) == strip(split(part, ":")[2])

\* The body of the for loop, for one part.
ScanPart(found, piece) ==
    LET part == strip(piece) IN
    IF In(ITER, part)
    THEN IF FieldRaises(part) \/ IntRaises(Field(part))
         THEN [found EXCEPT !.raised = TRUE]
         ELSE [found EXCEPT !.iteration = <<IntValue(Field(part))>>]
    ELSE IF In(LOSS, part)
    THEN IF FieldRaises(part) \/ FloatRaises(Field(part))
         THEN [found EXCEPT !.raised = TRUE]
         ELSE [found EXCEPT !.loss = <<FloatValue(Field(part))>>]
    ELSE found

\* for part in parts: the loop ends at the first exception.
RECURSIVE ScanParts(_, _)
ScanParts(parts, found) ==
    IF parts = <<>> \/ found.raised
    THEN found
    ELSE ScanParts(Tail(parts), ScanPart(found, Head(parts)))

\* The try block of _parse_training_output.
ParseBody(line) ==
    IF In(ITER, line) /\ In(LOSS, line)
    THEN ScanParts(split(line, ","), NothingFound)
    ELSE NothingFound

\* except Exception: the exception is logged and dropped.
Except(found) == IF found.raised THEN NothingFound ELSE found

\* _parse_training_output: whether it raises, and what it returns: the
\* record when both values were found, None otherwise.
parse_training_output(line) ==
    LET found == Except(ParseBody(line)) IN
    [raises |-> found.raised,
     value |-> IF ~found.raised /\ found.iteration # <<>> /\ found.loss # <<>>
               THEN [iteration |-> found.iteration[1], loss |-> found.loss[1]]
               ELSE NoProgress]

\* The characters of the lines of the training processes as readline
\* returns them, the line terminator included: a progress line, and an
\* indented line.
Spelling(line) ==
    CASE line = "iter: 1, loss: 2" ->
            <<"i", "t", "e", "r", ":", " ", "1", ",", " ", "l", "o", "s",
             "s", ":", " ", "2", "\n">>
      [] line = "starting worker pool" ->
            <<" ", " ", "s", "t", "a", "r", "t", "i", "n", "g", " ", "w",
             "o", "r", "k", "e", "r", " ", "p", "o", "o", "l", "\n">>
      [] OTHER -> <<>>

\* line = line.decode().strip()
line_str == [line \in Lines |-> strip(Spelling(line))]

\* What _parse_training_output gives for each of these lines.
Parsed == [line \in Lines |-> parse_training_output(line_str[line])]

UpdateIterationOnly(record, progress) ==
    [record EXCEPT !.iteration = progress.iteration]

\* active_trainings[project_name].update(progress)
UpdateProgress(record, progress) ==
    [record EXCEPT !.iteration = progress.iteration, !.loss = progress.loss]

\* active_trainings[project_name]["status"] = status
SetStatus(record, status) == [record EXCEPT !.status = status]

MonExceptUnpublished(j) ==
    LET p == procProject[j] IN
    /\ active_trainings' =
          SetRecord(p, SetStatus(active_trainings[p], "error"))
    /\ published' = published
    /\ mon' = [mon EXCEPT ![j] = "done"]

\* except Exception: the status becomes "error", training_error is
\* broadcast with str(e), and the routine returns.
MonExcept(j) ==
    LET p == procProject[j] IN
    /\ active_trainings' =
          SetRecord(p, SetStatus(active_trainings[p], "error"))
    /\ published' = Publish(ErrorEvent(p))
    /\ mon' = [mon EXCEPT ![j] = "done"]

\* readline returned a line.  A line that does not decode raises inside
\* the try block: the status becomes "error" and training_error is
\* broadcast.  A line that parses updates the record and is broadcast as
\* training_progress; any other line is broadcast as training_log.
MonReadLine(j) ==
    /\ mon[j] = "read"
    /\ stdout[j] # <<>>
    /\ LET line == Head(stdout[j])
           p == procProject[j]
           progress == Parsed[line].value
       IN
        /\ stdout' = [stdout EXCEPT ![j] = Tail(@)]
        /\ IF line = "undecodable" \/ Parsed[line].raises
           THEN /\ MonExcept(j)
                /\ UNCHANGED monLine
           ELSE IF progress # NoProgress
           THEN /\ active_trainings' =
                      SetRecord(p, UpdateProgress(active_trainings[p], progress))
                /\ published' = Publish(ProgressEvent(p, progress))
                /\ mon' = [mon EXCEPT ![j] = "log"]
                /\ monLine' = [monLine EXCEPT ![j] = line]
           ELSE /\ published' = Publish(LogEvent(p, line_str[line]))
                /\ UNCHANGED <<active_trainings, mon, monLine>>
    /\ last' = Idle
    /\ UNCHANGED <<procState, procProject, written, stopCall, calls, pausedAt>>
    /\ status_reply' = NoReply
    /\ UNCHANGED <<stderrHeld, exitStatus, project_path>>
    /\ UNCHANGED <<colmapVars, connVars, parseVars>>

\* The broadcast of training_progress returned: the line is broadcast as
\* training_log and the routine reads on.
MonLog(j) ==
    /\ mon[j] = "log"
    /\ published' = Publish(LogEvent(procProject[j], line_str[monLine[j]]))
    /\ mon' = [mon EXCEPT ![j] = "read"]
    /\ monLine' = [monLine EXCEPT ![j] = NoLine]
    /\ last' = Idle
    /\ UNCHANGED <<active_trainings, procState, procProject, stdout, written,
                   stopCall, calls, pausedAt>>
    /\ status_reply' = NoReply
    /\ UNCHANGED <<stderrHeld, exitStatus, project_path>>
    /\ UNCHANGED <<colmapVars, connVars, parseVars>>

\* After process.wait() the status is set to "completed" and
\* training_complete is broadcast.
MonCompleted(j) ==
    LET p == procProject[j] IN
    /\ active_trainings' =
          SetRecord(p, SetStatus(active_trainings[p], "completed"))
    /\ published' = Publish(Event("training_complete", p))
    /\ mon' = [mon EXCEPT ![j] = "done"]

\* readline returned the end of the stream: process.wait() returns at once
\* when the return code is set, and otherwise suspends until the transport
\* is finished.
MonEOF(j) ==
    /\ mon[j] = "read"
    /\ stdout[j] = <<>>
    /\ procState[j] \in {"eof", "closed"}
    /\ IF procState[j] = "closed"
       THEN MonCompleted(j)
       ELSE /\ mon' = [mon EXCEPT ![j] = "wait"]
            /\ UNCHANGED <<active_trainings, published>>
    /\ last' = Idle
    /\ UNCHANGED <<procState, procProject, stdout, written, monLine,
                   stopCall, calls, pausedAt>>
    /\ status_reply' = NoReply
    /\ UNCHANGED <<stderrHeld, exitStatus, project_path>>
    /\ UNCHANGED <<colmapVars, connVars, parseVars>>

\* process.wait() returned to the monitoring routine.
MonWaitReturned(j) ==
    /\ mon[j] = "wait"
    /\ Finished(j)
    /\ MonCompleted(j)
    /\ last' = Idle
    /\ UNCHANGED <<procState, procProject, stdout, written, monLine,
                   stopCall, calls, pausedAt>>
    /\ status_reply' = NoReply
    /\ UNCHANGED <<stderrHeld, exitStatus, project_path>>
    /\ UNCHANGED <<colmapVars, connVars, parseVars>>

(***************************************************************************)
(* pause_training, resume_training, stop_training.                         *)
(***************************************************************************)

\* os.kill(process.pid, sig) finds a process: always while the pid is not
\* reaped; after that only when the pid has been given to another process.
KillFinds(j, recycled) == procState[j] \in Unreaped \/ recycled

\* The process after SIGSTOP.
AfterSIGSTOP(state) == IF state \in Alive THEN "suspended" ELSE state

\* The process after SIGCONT.
AfterSIGCONT(state) == IF state \in Alive THEN "running" ELSE state

\* The process after SIGKILL.
AfterSIGKILL(state) == IF state \in Alive THEN "zombie" ELSE state

\* active_trainings[project_name]["status"] = "paused"
PauseRecord(record) == SetStatus(record, "paused")

\* A resume_training that leaves the status as it finds it.
ResumeRecordForgets(record) == record

\* active_trainings[project_name]["status"] = "running"
ResumeRecord(record) == SetStatus(record, "running")

\* pause_training has no suspension point: it is one step.  Without a
\* record it returns; with one it sends SIGSTOP to the recorded pid and
\* sets the status to "paused", whatever the status was.
pause_training(p) ==
    /\ calls < MaxCalls
    /\ calls' = calls + 1
    /\ IF p \notin DOMAIN active_trainings
       THEN /\ last' = Call("pause", p, "ok", FALSE, "none", get_status(p).status,
                        get_status(p))
            /\ Observe("pause", "ok", p)
            /\ UNCHANGED <<active_trainings, procState>>
       ELSE LET j == active_trainings[p].process IN
            \E recycled \in BOOLEAN :
              IF KillFinds(j, recycled)
              THEN /\ procState' = [procState EXCEPT ![j] = AfterSIGSTOP(@)]
                   /\ active_trainings' =
                         SetRecord(p, PauseRecord(active_trainings[p]))
                   /\ last' = Call("pause", p, "ok", TRUE, "none", get_status(p).status,
                        get_status(p))
                   /\ Observe("pause", "ok", p)
              ELSE /\ last' = Call("pause", p, "raise", FALSE, "none", get_status(p).status,
                        get_status(p))
                   /\ Observe("pause", "raise", p)
                   /\ UNCHANGED <<active_trainings, procState>>
    /\ UNCHANGED <<procProject, stdout, written, mon, monLine, stopCall,
                   published>>
    /\ status_reply' = NoReply
    /\ UNCHANGED <<stderrHeld, exitStatus, project_path>>
    /\ UNCHANGED <<colmapVars, connVars, parseVars>>

\* resume_training: as pause_training, with SIGCONT and "running".
resume_training(p) ==
    /\ calls < MaxCalls
    /\ calls' = calls + 1
    /\ IF p \notin DOMAIN active_trainings
       THEN /\ last' = Call("resume", p, "ok", FALSE, "none", get_status(p).status,
                        get_status(p))
            /\ Observe("resume", "ok", p)
            /\ UNCHANGED <<active_trainings, procState>>
       ELSE LET j == active_trainings[p].process IN
            \E recycled \in BOOLEAN :
              IF KillFinds(j, recycled)
              THEN /\ procState' = [procState EXCEPT ![j] = AfterSIGCONT(@)]
                   /\ active_trainings' =
                         SetRecord(p, ResumeRecord(active_trainings[p]))
                   /\ last' = Call("resume", p, "ok", TRUE, "none", get_status(p).status,
                        get_status(p))
                   /\ Observe("resume", "ok", p)
              ELSE /\ last' = Call("resume", p, "raise", FALSE, "none", get_status(p).status,
                        get_status(p))
                   /\ Observe("resume", "raise", p)
                   /\ UNCHANGED <<active_trainings, procState>>
    /\ UNCHANGED <<procProject, stdout, written, mon, monLine, stopCall,
                   published>>
    /\ status_reply' = NoReply
    /\ UNCHANGED <<stderrHeld, exitStatus, project_path>>
    /\ UNCHANGED <<colmapVars, connVars, parseVars>>

\* Process.terminate and Process.kill raise ProcessLookupError once the
\* transport is finished.
CheckProcRaises(j) == Finished(j)

\* Popen.send_signal polls first and sends nothing once the return code is
\* set.
SignalSent(j) == procState[j] \in Unreaped

\* process.wait() returns without suspending when the return code is set.
WaitReturnsAtOnce(state) == state \in {"reaped", "closed"}

\* A suspended process.wait() is woken when the transport is finished.
WaiterWoken(j) == Finished(j)

\* A stop_training that sets the status only of a record it finds running.
StopRecordIfRunning(record) ==
    IF record.status = "running" THEN SetStatus(record, "stopped") ELSE record

\* active_trainings[project_name]["status"] = "stopped", on the record
\* found under the name when the wait is over.
StopRecord(record) == SetStatus(record, "stopped")

\* The end of stop_training: the status is set and the call returns.
StopReturns(p, via) ==
    /\ active_trainings' = SetRecord(p, StopRecord(active_trainings[p]))
    /\ stopCall' = [stopCall EXCEPT ![p] = NoStop]
    /\ last' = Call("stop", p, "ok", FALSE, via, stopCall[p].from,
                    get_status(p))
    /\ Observe("stop", "ok", p)

\* stop_training up to its first suspension.  Without a record it returns.
\* With one, terminate() raises when the transport is finished and
\* otherwise requests termination; the call then awaits process.wait()
\* for at most 10 seconds.  The model follows one stop_training call per
\* project at a time.
StopTerminate(p) ==
    /\ stopCall[p].pc = "idle"
    /\ calls < MaxCalls
    /\ calls' = calls + 1
    /\ IF p \notin DOMAIN active_trainings
       THEN /\ last' = Call("stop", p, "ok", FALSE, "none", get_status(p).status,
                        get_status(p))
            /\ Observe("stop", "ok", p)
            /\ UNCHANGED stopCall
       ELSE LET j == active_trainings[p].process IN
            IF CheckProcRaises(j)
            THEN /\ last' = Call("stop", p, "raise", FALSE, "none", get_status(p).status,
                        get_status(p))
                 /\ Observe("stop", "raise", p)
                 /\ UNCHANGED stopCall
            ELSE /\ stopCall' = [stopCall EXCEPT ![p] =
                        [pc |-> IF WaitReturnsAtOnce(procState[j])
                                THEN "ready" ELSE "wait",
                         process |-> j,
                         from |-> active_trainings[p].status]]
                 /\ last' = Call("stop", p, "pending", SignalSent(j), "none",
                                 get_status(p).status, get_status(p))
                 /\ Observe("stop", "pending", p)
    /\ UNCHANGED <<active_trainings, procState, procProject, stdout, written,
                   mon, monLine, published>>
    /\ status_reply' = NoReply
    /\ UNCHANGED <<stderrHeld, exitStatus, project_path>>
    /\ UNCHANGED <<colmapVars, connVars, parseVars>>

\* wait_for returned within the grace period.
StopWaitReturned(p) ==
    /\ \/ stopCall[p].pc = "ready"
       \/ stopCall[p].pc = "wait" /\ WaiterWoken(stopCall[p].process)
    /\ StopReturns(p, "graceful")
    /\ UNCHANGED <<procState, procProject, stdout, written, mon, monLine,
                   published, calls>>
    /\ status_reply' = NoReply
    /\ UNCHANGED <<stderrHeld, exitStatus, project_path>>
    /\ UNCHANGED <<colmapVars, connVars, parseVars>>

\* The grace period ran out with the waiter not woken: the process is
\* killed and process.wait() is awaited again, which returns at once when
\* the return code is already set.
StopTimeout(p) ==
    /\ stopCall[p].pc = "wait"
    /\ LET j == stopCall[p].process IN
        /\ ~WaiterWoken(j)
        /\ procState' = [procState EXCEPT ![j] = AfterSIGKILL(@)]
        /\ IF WaitReturnsAtOnce(procState[j])
           THEN StopReturns(p, "forced")
           ELSE /\ stopCall' = [stopCall EXCEPT ![p].pc = "killed"]
                /\ last' = Call("stop", p, "pending", SignalSent(j), "forced",
                                stopCall[p].from, get_status(p))
                /\ Observe("stop", "pending", p)
                /\ UNCHANGED active_trainings
    /\ UNCHANGED <<procProject, stdout, written, mon, monLine, published,
                   calls>>
    /\ status_reply' = NoReply
    /\ UNCHANGED <<stderrHeld, exitStatus, project_path>>
    /\ UNCHANGED <<colmapVars, connVars, parseVars>>

\* process.wait() returned after the kill.
StopKilledReturned(p) ==
    /\ stopCall[p].pc = "killed"
    /\ WaiterWoken(stopCall[p].process)
    /\ StopReturns(p, "forced")
    /\ UNCHANGED <<procState, procProject, stdout, written, mon, monLine,
                   published, calls>>
    /\ status_reply' = NoReply
    /\ UNCHANGED <<stderrHeld, exitStatus, project_path>>
    /\ UNCHANGED <<colmapVars, connVars, parseVars>>

\* get_status is called, as the status endpoint does: the call returns
\* what it finds under the project name and writes nothing.
GetStatus(project_name) ==
    /\ status_reply' = get_status(project_name)
    /\ last' = Call("status", project_name, "ok", FALSE, "none",
                    get_status(project_name).status,
                    get_status(project_name))
    /\ UNCHANGED <<active_trainings, procState, procProject, stdout, written,
                   mon, monLine, stopCall, published, calls, pausedAt,
                   stderrHeld, exitStatus, project_path>>
    /\ UNCHANGED <<colmapVars, connVars, parseVars>>

TrainNext ==
    \/ \E p \in Projects : GetStatus(p)
    \/ \E p \in Projects : StartSpawn(p, p)
    \/ \E j \in Procs : StartRegister(j)
    \/ \E p \in Projects : StartFails(p)
    \/ \E j \in Procs : ProcWrite(j, MaxLines)
    \/ \E j \in Procs : StderrFills(j)
    \/ \E j \in Procs : ProcExit(j, NotFollowed)
    \/ \E j \in Procs : ProcessExited(j)
    \/ \E j \in Procs : PipeConnectionLost(j)
    \/ \E j \in Procs : MonReadLine(j)
    \/ \E j \in Procs : MonLog(j)
    \/ \E j \in Procs : MonEOF(j)
    \/ \E j \in Procs : MonWaitReturned(j)
    \/ \E p \in Projects : pause_training(p)
    \/ \E p \in Projects : resume_training(p)
    \/ \E p \in Projects : StopTerminate(p)
    \/ \E p \in Projects : StopWaitReturned(p)
    \/ \E p \in Projects : StopTimeout(p)
    \/ \E p \in Projects : StopKilledReturned(p)

(***************************************************************************)
(* COLMAPProcessor.  process awaits one command at a time; a step of the   *)
(* pipeline is the code from the return of one command's communicate() to  *)
(* the launch of the next command.  The commands, their exit codes and the *)
(* files they leave behind are the environment.                            *)
(***************************************************************************)
Qualities == {"high", "medium", "low", "ultra", "HIGH"}
CameraModels == {"PINHOLE", "OPENCV"}

\* Exit codes of a command: success, failure, killed by a signal.
ExitCodes == {0, 1, -9}

\* Listings of the sparse directory after the mapper, in the order glob
\* yields the entries.
Listings == {<<>>, <<"0">>, <<"1">>, <<"1", "0">>, <<"1", "2">>, <<"2", "1">>}

\* A file of the reconstruction folder: absent, or its lines; a line is
\* the sequence of its characters.
NoFile == [exists |-> FALSE, readable |-> FALSE, lines |-> <<>>]
File(lines) == [exists |-> TRUE, readable |-> TRUE, lines |-> lines]

\* A file that open or the reading of its lines raises for: a directory
\* of that name, or bytes that do not decode.
Unreadable == [exists |-> TRUE, readable |-> FALSE, lines |-> <<>>]

Files == {NoFile,
          Unreadable,
          File(<< <<"#", " ", "h">>, <<"1", " ", "a">> >>),
          File(<< <<"1", " ", "a">>, <<"1", " ", "b">>, <<"2", " ", "c">> >>),
          File(<< <<"#", " ", "h">>, <<"1", " ", "a">>, <<"#">>,
                  <<"2", " ", "b">> >>),
          File(<< <<"#", " ", "h">>, <<"1", " ", "a">>, <<"2", " ", "b">>,
                  <<"\n">>, <<" ", "#", "c">>, <<"3", " ", "#">> >>)}
Folders == [cameras : Files, images : Files, points : Files]
NoFolder == [cameras |-> NoFile, images |-> NoFile, points |-> NoFile]

NoArgs == [camera_model |-> "none", quality |-> "none"]
NoStatistics == [computed |-> FALSE, value |-> <<>>]

ColmapInit ==
    /\ colmapPc = "idle"
    /\ colmapArgs = NoArgs
    /\ launched = <<>>
    /\ returncodes = <<>>
    /\ sparse_path = <<>>
    /\ reconstruction = NoFolder
    /\ statistics_path = <<>>
    /\ statistics = NoStatistics
    /\ densePc = "idle"
    /\ denseLaunched = <<>>
    /\ denseCodes = <<>>

\* A command line: the COLMAP subcommand and the argument that varies.
Command(name, param) == [name |-> name, param |-> param]

\* _run_command raises for a command that did not exit with code 0.
RunCommandRaisesOnFailureCode(returncode) == returncode > 0

RunCommandRaises(returncode) == returncode # 0

\* _run_command up to its suspension in communicate(): the command is
\* launched, or create_subprocess_exec raises and process re-raises.
RunCommand(cmd, stage, spawned) ==
    IF spawned
    THEN launched' = Append(launched, cmd) /\ colmapPc' = stage
    ELSE launched' = launched /\ colmapPc' = "raised"

\* A tier table that falls back to the low tier.
max_num_matches_low(quality) ==
    CASE quality = "high" -> 32768
      [] quality = "medium" -> 16384
      [] OTHER -> 8192

\* The tier table of _feature_matching.
max_num_matches(quality) ==
    CASE quality = "high" -> 32768
      [] quality = "medium" -> 16384
      [] quality = "low" -> 8192
      [] OTHER -> 32768

\* The reconstruction folder: "0" when it exists, else the first entry
\* of the listing; indexing an empty listing raises IndexError.
HasFolder0(listing) == \E i \in DOMAIN listing : listing[i] = "0"

ResolveRaises(listing) == ~HasFolder0(listing) /\ listing = <<>>

reconstruction_path(listing) ==
    IF HasFolder0(listing) THEN "0" ELSE listing[1]

\* All the lines of a file, comments included.
DataLinesAndComments(file) == DOMAIN file.lines

\* The lines of a file that do not start with "#".
DataLines(file) ==
    {i \in DOMAIN file.lines :
        ~(Len(file.lines[i]) > 0 /\ file.lines[i][1] = "#")}

\* The try block of _get_statistics: it raises when the reconstruction
\* folder cannot be resolved or a file that exists cannot be read, and
\* otherwise gives the counts, 0 for an absent file.
StatisticsBody(listing, folder) ==
    IF \/ ResolveRaises(listing)
       \/ \E file \in {folder.cameras, folder.images, folder.points} :
              file.exists /\ ~file.readable
    THEN [raised |-> TRUE, value |-> <<>>]
    ELSE [raised |-> FALSE,
          value |->
            [num_cameras |-> IF folder.cameras.exists
                             THEN Cardinality(DataLines(folder.cameras))
                             ELSE 0,
             num_images |-> IF folder.images.exists
                            THEN Cardinality(DataLines(folder.images)) \div 2
                            ELSE 0,
             num_points |-> IF folder.points.exists
                            THEN Cardinality(DataLines(folder.points))
                            ELSE 0]]

StatisticsExceptNothing(outcome) == outcome

\* except Exception of _get_statistics: the empty dict is returned.
StatisticsExcept(outcome) ==
    IF outcome.raised THEN [raised |-> FALSE, value |-> <<>>] ELSE outcome

\* _get_statistics: whether it raises, and what it returns.
get_statistics(listing, folder) ==
    StatisticsExcept(StatisticsBody(listing, folder))

\* process is called: the directories are made and the feature extractor
\* is launched.
process(camera_model, quality, spawned) ==
    /\ colmapPc = "idle"
    /\ colmapArgs' = [camera_model |-> camera_model, quality |-> quality]
    /\ RunCommand(Command("feature_extractor", camera_model),
                  "feature_extraction", spawned)
    /\ UNCHANGED <<returncodes, sparse_path, reconstruction, statistics_path,
                   statistics, densePc, denseLaunched, denseCodes>>
    /\ UNCHANGED <<trainVars, connVars, parseVars>>

\* The feature extractor has ended; the matcher is launched.
FeatureExtractionExits(returncode, spawned) ==
    /\ colmapPc = "feature_extraction"
    /\ returncodes' = Append(returncodes, returncode)
    /\ IF RunCommandRaises(returncode)
       THEN colmapPc' = "raised" /\ launched' = launched
       ELSE RunCommand(Command("exhaustive_matcher",
                               ToString(max_num_matches(colmapArgs.quality))),
                       "feature_matching", spawned)
    /\ UNCHANGED <<colmapArgs, sparse_path, reconstruction, statistics_path,
                   statistics, densePc, denseLaunched, denseCodes>>
    /\ UNCHANGED <<trainVars, connVars, parseVars>>

\* The matcher has ended; the mapper is launched.
FeatureMatchingExits(returncode, spawned) ==
    /\ colmapPc = "feature_matching"
    /\ returncodes' = Append(returncodes, returncode)
    /\ IF RunCommandRaises(returncode)
       THEN colmapPc' = "raised" /\ launched' = launched
       ELSE RunCommand(Command("mapper", "sparse"),
                       "sparse_reconstruction", spawned)
    /\ UNCHANGED <<colmapArgs, sparse_path, reconstruction, statistics_path,
                   statistics, densePc, denseLaunched, denseCodes>>
    /\ UNCHANGED <<trainVars, connVars, parseVars>>

SparseReconstructionDefaultFolder(returncode, listing, spawned) ==
    /\ colmapPc = "sparse_reconstruction"
    /\ returncodes' = Append(returncodes, returncode)
    /\ sparse_path' = listing
    /\ IF RunCommandRaises(returncode)
       THEN colmapPc' = "raised" /\ launched' = launched
       ELSE RunCommand(Command("image_undistorter",
                               IF listing = <<>> THEN "0"
                               ELSE reconstruction_path(listing)),
                       "image_undistortion", spawned)
    /\ UNCHANGED <<colmapArgs, reconstruction, statistics_path, statistics,
                   densePc, denseLaunched, denseCodes>>
    /\ UNCHANGED <<trainVars, connVars, parseVars>>

\* The mapper has ended, leaving its folders in the sparse directory; the
\* reconstruction folder is resolved and the undistorter is launched.
SparseReconstructionExits(returncode, listing, spawned) ==
    /\ colmapPc = "sparse_reconstruction"
    /\ returncodes' = Append(returncodes, returncode)
    /\ sparse_path' = listing
    /\ IF RunCommandRaises(returncode) \/ ResolveRaises(listing)
       THEN colmapPc' = "raised" /\ launched' = launched
       ELSE RunCommand(Command("image_undistorter",
                               reconstruction_path(listing)),
                       "image_undistortion", spawned)
    /\ UNCHANGED <<colmapArgs, reconstruction, statistics_path, statistics,
                   densePc, denseLaunched, denseCodes>>
    /\ UNCHANGED <<trainVars, connVars, parseVars>>

\* The sparse directory as _get_statistics finds it: as the mapper left
\* it, or emptied since.
Found(listing) == {listing, <<>>}

\* The undistorter has ended; the statistics are computed from the sparse
\* directory and the files of the reconstruction folder as they are now,
\* and process returns status "success".
ImageUndistortionExits(returncode, listing, folder) ==
    /\ colmapPc = "image_undistortion"
    /\ returncodes' = Append(returncodes, returncode)
    /\ LET stats == get_statistics(listing, folder) IN
       IF RunCommandRaises(returncode)
       THEN /\ colmapPc' = "raised"
            /\ UNCHANGED <<reconstruction, statistics_path, statistics>>
       ELSE /\ colmapPc' = IF stats.raised THEN "raised" ELSE "returned"
            /\ reconstruction' = folder
            /\ statistics_path' = listing
            /\ statistics' = IF stats.raised THEN statistics
                              ELSE [computed |-> TRUE, value |-> stats.value]
    /\ UNCHANGED <<colmapArgs, launched, sparse_path, densePc, denseLaunched,
                   denseCodes>>
    /\ UNCHANGED <<trainVars, connVars, parseVars>>

StereoMatchingExitsUnchecked(returncode, spawned) ==
    /\ densePc = "stereo_matching"
    /\ denseCodes' = Append(denseCodes, returncode)
    /\ IF spawned
       THEN /\ denseLaunched' = Append(denseLaunched,
                                       Command("stereo_fusion", "fused.ply"))
            /\ densePc' = "stereo_fusion"
       ELSE denseLaunched' = denseLaunched /\ densePc' = "raised"
    /\ UNCHANGED <<colmapPc, colmapArgs, launched, returncodes, sparse_path,
                   reconstruction, statistics_path, statistics>>
    /\ UNCHANGED <<trainVars, connVars, parseVars>>

\* dense_reconstruction is called: patch_match_stereo is launched, or
\* create_subprocess_exec raises.
dense_reconstruction(spawned) ==
    /\ densePc = "idle"
    /\ IF spawned
       THEN /\ denseLaunched' = Append(denseLaunched,
                                       Command("patch_match_stereo", "0"))
            /\ densePc' = "stereo_matching"
       ELSE denseLaunched' = denseLaunched /\ densePc' = "raised"
    /\ UNCHANGED <<colmapPc, colmapArgs, launched, returncodes, sparse_path,
                   reconstruction, statistics_path, statistics, denseCodes>>
    /\ UNCHANGED <<trainVars, connVars, parseVars>>

\* patch_match_stereo has ended: _run_command raises for an exit code
\* other than 0, and otherwise stereo_fusion is launched.
StereoMatchingExits(returncode, spawned) ==
    /\ densePc = "stereo_matching"
    /\ denseCodes' = Append(denseCodes, returncode)
    /\ IF RunCommandRaises(returncode) \/ ~spawned
       THEN denseLaunched' = denseLaunched /\ densePc' = "raised"
       ELSE /\ denseLaunched' = Append(denseLaunched,
                                       Command("stereo_fusion", "fused.ply"))
            /\ densePc' = "stereo_fusion"
    /\ UNCHANGED <<colmapPc, colmapArgs, launched, returncodes, sparse_path,
                   reconstruction, statistics_path, statistics>>
    /\ UNCHANGED <<trainVars, connVars, parseVars>>

\* stereo_fusion has ended: dense_reconstruction raises or returns.
StereoFusionExits(returncode) ==
    /\ densePc = "stereo_fusion"
    /\ denseCodes' = Append(denseCodes, returncode)
    /\ densePc' = IF RunCommandRaises(returncode) THEN "raised" ELSE "returned"
    /\ UNCHANGED <<colmapPc, colmapArgs, launched, returncodes, sparse_path,
                   reconstruction, statistics_path, statistics, denseLaunched>>
    /\ UNCHANGED <<trainVars, connVars, parseVars>>

ColmapNext ==
    \/ \E camera_model \in CameraModels, quality \in Qualities,
          spawned \in BOOLEAN : process(camera_model, quality, spawned)
    \/ \E returncode \in ExitCodes, spawned \in BOOLEAN :
          FeatureExtractionExits(returncode, spawned)
    \/ \E returncode \in ExitCodes, spawned \in BOOLEAN :
          FeatureMatchingExits(returncode, spawned)
    \/ \E returncode \in ExitCodes, listing \in Listings, spawned \in BOOLEAN :
          SparseReconstructionExits(returncode, listing, spawned)
    \/ \E returncode \in ExitCodes, listing \in Found(sparse_path),
          folder \in Folders :
          ImageUndistortionExits(returncode, listing, folder)
    \/ \E spawned \in BOOLEAN : dense_reconstruction(spawned)
    \/ \E returncode \in ExitCodes, spawned \in BOOLEAN :
          StereoMatchingExits(returncode, spawned)
    \/ \E returncode \in ExitCodes : StereoFusionExits(returncode)

(***************************************************************************)
(* ConnectionManager and the websocket endpoint.  Every await of a         *)
(* coroutine is a point where the other coroutines may run: accept,        *)
(* receive_text and send_json in the endpoint, send_json in broadcast.     *)
(* The clients are the environment.                                        *)
(***************************************************************************)
Sockets == 1..MaxSockets

\* A message a client receives: a broadcast event or a heartbeat.
Msg(type, n) == [type |-> type, n |-> n]

\* The text messages are numbered as the clients send them; a binary
\* frame carries no text.
NoText == 0
Binary == 0

NoBroadcast == [pc |-> "idle", event |-> 0, i |-> 0, connection |-> 0,
                audience |-> {}, closed |-> {}, failed |-> {}]

ConnInit ==
    /\ active_connections = <<>>
    /\ sock = [w \in Sockets |-> "new"]
    /\ handler = [w \in Sockets |-> "none"]
    /\ texts = 0
    /\ textsOf = [w \in Sockets |-> <<>>]
    /\ inbox = [w \in Sockets |-> <<>>]
    /\ data = [w \in Sockets |-> NoText]
    /\ received = [w \in Sockets |-> <<>>]
    /\ bc = NoBroadcast
    /\ sent = 0
    /\ broadcasts = {}

\* list.remove: the list without the first occurrence of the item.
Remove(list, item) ==
    LET k == CHOOSE i \in DOMAIN list :
                 list[i] = item /\ \A h \in 1..(i - 1) : list[h] # item
    IN  [h \in 1..(Len(list) - 1) |-> IF h < k THEN list[h] ELSE list[h + 1]]

\* ConnectionManager.disconnect.
disconnect(websocket) == Remove(active_connections, websocket)

\* A client connects: websocket_endpoint starts and awaits accept.
websocket_endpoint(w) ==
    /\ sock[w] = "new"
    /\ sock' = [sock EXCEPT ![w] = "connecting"]
    /\ handler' = [handler EXCEPT ![w] = "accept"]
    /\ UNCHANGED <<active_connections, texts, textsOf, inbox, data, received,
                   bc, sent, broadcasts>>
    /\ UNCHANGED <<trainVars, colmapVars, parseVars>>

\* ConnectionManager.connect after accept: the connection is appended and
\* the endpoint awaits receive_text.
connect(w) ==
    /\ handler[w] = "accept"
    /\ active_connections' = Append(active_connections, w)
    /\ sock' = [sock EXCEPT ![w] = "open"]
    /\ handler' = [handler EXCEPT ![w] = "receive"]
    /\ UNCHANGED <<texts, textsOf, inbox, data, received, bc, sent, broadcasts>>
    /\ UNCHANGED <<trainVars, colmapVars, parseVars>>

\* The client stops reading: once the buffers between the server and
\* the client are full, a send to it does not complete.
ClientStalls(w) ==
    /\ sock[w] = "open"
    /\ sock' = [sock EXCEPT ![w] = "stalled"]
    /\ UNCHANGED <<active_connections, handler, texts, textsOf, inbox, data,
                   received, bc, sent, broadcasts>>
    /\ UNCHANGED <<trainVars, colmapVars, parseVars>>

\* The client closes its connection: from now on a send to it fails.
ClientCloses(w) ==
    /\ sock[w] \in {"open", "stalled"}
    /\ sock' = [sock EXCEPT ![w] = "closed"]
    /\ UNCHANGED <<active_connections, handler, texts, textsOf, inbox, data,
                   received, bc, sent, broadcasts>>
    /\ UNCHANGED <<trainVars, colmapVars, parseVars>>

\* The client sends a text message.
ClientSendsText(w) ==
    /\ sock[w] = "open"
    /\ texts < MaxTexts
    /\ texts' = texts + 1
    /\ textsOf' = [textsOf EXCEPT ![w] = Append(@, texts + 1)]
    /\ inbox' = [inbox EXCEPT ![w] = Append(@, texts + 1)]
    /\ UNCHANGED <<active_connections, sock, handler, data, received, bc, sent,
                   broadcasts>>
    /\ UNCHANGED <<trainVars, colmapVars, parseVars>>

\* The client sends a binary frame.
ClientSendsBinary(w) ==
    /\ sock[w] = "open"
    /\ \A k \in DOMAIN inbox[w] : inbox[w][k] # Binary
    /\ inbox' = [inbox EXCEPT ![w] = Append(@, Binary)]
    /\ UNCHANGED <<active_connections, sock, handler, texts, textsOf, data,
                   received, bc, sent, broadcasts>>
    /\ UNCHANGED <<trainVars, colmapVars, parseVars>>

\* A heartbeat that is sent under another type.
heartbeat_renamed(text) == Msg("echo", text)

\* The message the endpoint answers a text with; the number of the text
\* stands for its timestamp.
heartbeat(text) == Msg("heartbeat", text)

\* receive_text returns the next text of the client; the endpoint calls
\* send_json with the heartbeat.
ReceiveText(w) ==
    /\ handler[w] = "receive"
    /\ inbox[w] # <<>>
    /\ Head(inbox[w]) # Binary
    /\ data' = [data EXCEPT ![w] = Head(inbox[w])]
    /\ inbox' = [inbox EXCEPT ![w] = Tail(@)]
    /\ handler' = [handler EXCEPT ![w] = "send"]
    /\ UNCHANGED <<active_connections, sock, texts, textsOf, received, bc,
                   sent, broadcasts>>
    /\ UNCHANGED <<trainVars, colmapVars, parseVars>>

\* The next frame of the client is a binary one: the message has no
\* "text" and receive_text raises KeyError, which the endpoint does not
\* catch; the server closes the connection of a handler that raised.
ReceiveBinary(w) ==
    /\ handler[w] = "receive"
    /\ inbox[w] # <<>>
    /\ Head(inbox[w]) = Binary
    /\ inbox' = [inbox EXCEPT ![w] = <<>>]
    /\ handler' = [handler EXCEPT ![w] = "ended"]
    /\ sock' = [sock EXCEPT ![w] = "closed"]
    /\ UNCHANGED <<active_connections, texts, textsOf, data, received, bc,
                   sent, broadcasts>>
    /\ UNCHANGED <<trainVars, colmapVars, parseVars>>

\* send_json of the heartbeat returns, and the endpoint awaits the next
\* text; or it raises on a closed connection.  Which exception that is
\* depends on the ASGI server: only WebSocketDisconnect is caught.
SendHeartbeat(w, disconnected) ==
    /\ handler[w] = "send"
    /\ sock[w] # "stalled"
    /\ IF sock[w] = "open"
       THEN /\ received' = [received EXCEPT
                               ![w] = Append(@, heartbeat(data[w]))]
            /\ handler' = [handler EXCEPT ![w] = "receive"]
            /\ active_connections' = active_connections
       ELSE /\ received' = received
            /\ handler' = [handler EXCEPT ![w] = "ended"]
            /\ active_connections' =
                   IF disconnected THEN disconnect(w) ELSE active_connections
    /\ UNCHANGED <<sock, texts, textsOf, inbox, data, bc, sent, broadcasts>>
    /\ UNCHANGED <<trainVars, colmapVars, parseVars>>

\* receive_text raises WebSocketDisconnect, after the frames the client
\* sent before it closed: the endpoint unregisters the connection and ends.
ReceiveDisconnect(w) ==
    /\ handler[w] = "receive"
    /\ sock[w] = "closed"
    /\ inbox[w] = <<>>
    /\ active_connections' = disconnect(w)
    /\ handler' = [handler EXCEPT ![w] = "ended"]
    /\ UNCHANGED <<sock, texts, textsOf, inbox, data, received, bc, sent,
                   broadcasts>>
    /\ UNCHANGED <<trainVars, colmapVars, parseVars>>

\* What a broadcast call leaves behind when it returns.
Returned(frame) ==
    [event |-> frame.event, audience |-> frame.audience,
     closed |-> frame.closed, failed |-> frame.failed]

\* The list iterator of broadcast: it holds how many items it has
\* yielded, and yields the item at that index while there is one.
HasNext(list, i) == i < Len(list)

\* broadcast is called, while fewer than the given number of events have
\* been broadcast in the run: the loop takes the first connection and
\* awaits its send_json; with no connection the call returns at once.
BroadcastBegin(most) ==
    /\ bc.pc = "idle"
    /\ sent < most
    /\ sent' = sent + 1
    /\ LET frame == [pc |-> "send", event |-> sent + 1, i |-> 0,
                     connection |-> 0, failed |-> {},
                     audience |-> {active_connections[k] :
                                       k \in DOMAIN active_connections},
                     closed |-> {active_connections[k] :
                                     k \in {h \in DOMAIN active_connections :
                                        sock[active_connections[h]] = "closed"}}]
       IN  IF HasNext(active_connections, 0)
           THEN /\ bc' = [frame EXCEPT !.i = 1,
                                       !.connection = active_connections[1]]
                /\ broadcasts' = broadcasts
           ELSE /\ bc' = NoBroadcast
                /\ broadcasts' = broadcasts \cup {Returned(frame)}
    /\ UNCHANGED <<active_connections, sock, handler, texts, textsOf, inbox,
                   data, received>>
    /\ UNCHANGED <<trainVars, colmapVars, parseVars>>

\* send_json of broadcast returns or raises (the exception is dropped);
\* the loop takes the next connection of the list, or the call returns.
BroadcastSendReturns ==
    /\ bc.pc = "send"
    /\ sock[bc.connection] # "stalled"
    /\ received' = IF sock[bc.connection] = "open"
                   THEN [received EXCEPT ![bc.connection] =
                                      Append(@, Msg("event", bc.event))]
                   ELSE received
    /\ LET frame == IF sock[bc.connection] = "open"
                    THEN bc
                    ELSE [bc EXCEPT !.failed = @ \cup {bc.connection}]
       IN  IF HasNext(active_connections, bc.i)
           THEN /\ bc' = [frame EXCEPT
                              !.i = @ + 1,
                              !.connection = active_connections[bc.i + 1]]
                /\ broadcasts' = broadcasts
           ELSE /\ bc' = NoBroadcast
                /\ broadcasts' = broadcasts \cup {Returned(frame)}
    /\ UNCHANGED <<active_connections, sock, handler, texts, textsOf, inbox,
                   data, sent>>
    /\ UNCHANGED <<trainVars, colmapVars, parseVars>>

ConnNext ==
    \/ \E w \in Sockets : websocket_endpoint(w)
    \/ \E w \in Sockets : connect(w)
    \/ \E w \in Sockets : ClientStalls(w)
    \/ \E w \in Sockets : ClientCloses(w)
    \/ \E w \in Sockets : ClientSendsText(w)
    \/ \E w \in Sockets : ClientSendsBinary(w)
    \/ \E w \in Sockets : ReceiveText(w)
    \/ \E w \in Sockets : ReceiveBinary(w)
    \/ \E w \in Sockets, disconnected \in BOOLEAN :
          SendHeartbeat(w, disconnected)
    \/ \E w \in Sockets : ReceiveDisconnect(w)
    \/ BroadcastBegin(MaxEvents)
    \/ BroadcastSendReturns

\* The events of one job, broadcast one after the other to clients that
\* send nothing.
DeliveryNext ==
    \/ \E w \in Sockets : websocket_endpoint(w)
    \/ \E w \in Sockets : connect(w)
    \/ \E w \in Sockets : ClientStalls(w)
    \/ \E w \in Sockets : ClientCloses(w)
    \/ \E w \in Sockets : ReceiveDisconnect(w)
    \/ BroadcastBegin(MaxOrdered)
    \/ BroadcastSendReturns

(***************************************************************************)
(* _parse_training_output on its own: an output line is put together,      *)
(* from parts joined by commas or in the shape of the example in the       *)
(* source, "iter: 1000, loss: 0.0234", and given to the function.          *)
(***************************************************************************)
\* The parts a line is put together from.
Parts ==
    {<<"i", "t", "e", "r", ":", " ", "1">>,
     <<"l", "o", "s", "s", ":", " ", "2">>,
     <<" ", "l", "o", "s", "s", ":", " ", "0", ".", "5", " ">>,
     <<"i", "t", "e", "r", " ", "1">>,
     <<"l", "o", "s", "s", " ", "2">>,
     <<"i", "t", "e", "r", ":", " ", "x">>,
     <<"l", "o", "s", "s", ":", " ", "x">>,
     <<"i", "t", "e", "r", ":", " ", "1", ".", "5">>,
     <<"i", "t", "e", "r", ":", " ", "1", ":", "x">>,
     <<"1", ":", "3", "0", ":", "0", "1", " ", "i", "t", "e", "r", ":", " ", "x">>,
     <<"l", "r", ":", " ", "3">>,
     <<>>,
     <<"l", "o", "s", "s", ":", " ", "n", "a", "n">>,
     <<"i", "t", "e", "r", ":", " ", "1", " ", "l", "o", "s", "s", ":", " ", "2">>,
     <<"l", "o", "s", "s", ":", " ", "1", "e", "2">>,
     <<"s", "t", "a", "r", "t", "i", "n", "g", " ", "w", "o", "r", "k", "e", "r", " ", "p", "o", "o", "l">>}

\* The numbers a line in the shape of the example is written from: the
\* iteration, and the loss as mantissa / 10^decimals.
Iterations == {0, 7, 1000}
Mantissas == {0, 5, 234}
Decimals == {0, 1, 4}

NoOrigin == [kind |-> "none", parts |-> 0, iteration |-> 0, mantissa |-> 0,
             decimals |-> 0]
Unparsed == [done |-> FALSE, raises |-> FALSE, value |-> NoProgress]

ParseInit ==
    /\ parseLine = <<>>
    /\ parseOrigin = NoOrigin
    /\ parseOutcome = Unparsed

DigitChar(d) ==
    CASE d = 0 -> "0" [] d = 1 -> "1" [] d = 2 -> "2" [] d = 3 -> "3"
      [] d = 4 -> "4" [] d = 5 -> "5" [] d = 6 -> "6" [] d = 7 -> "7"
      [] d = 8 -> "8" [] d = 9 -> "9"

\* The decimal digits of a natural number.
RECURSIVE DigitsOf(_)
DigitsOf(n) ==
    IF n < 10 THEN <<DigitChar(n)>>
    ELSE DigitsOf(n \div 10) \o <<DigitChar(n % 10)>>

\* The digits of n with zeros in front, at least width of them.
RECURSIVE Padded(_, _)
Padded(digits, width) ==
    IF Len(digits) >= width THEN digits ELSE Padded(<<"0">> \o digits, width)

\* mantissa / 10^decimals written with that many digits after the point.
DecimalOf(mantissa, decimals) ==
    LET digits == Padded(DigitsOf(mantissa), decimals + 1)
        whole == Len(digits) - decimals
    IN  IF decimals = 0 THEN digits
        ELSE SubSeq(digits, 1, whole) \o <<".">>
                 \o SubSeq(digits, whole + 1, Len(digits))

\* "iter: N, loss: F"
Shape(n, mantissa, decimals) ==
    ITER \o <<":", " ">> \o DigitsOf(n) \o <<",", " ">>
        \o LOSS \o <<":", " ">> \o DecimalOf(mantissa, decimals)

\* A training process writes one more part of its line.
WritePart(part) ==
    /\ ~parseOutcome.done
    /\ parseOrigin.kind \in {"none", "parts"}
    /\ parseOrigin.parts < MaxParts
    /\ parseLine' = IF parseOrigin.kind = "none" THEN part
                    ELSE parseLine \o <<",">> \o part
    /\ parseOrigin' = [parseOrigin EXCEPT !.kind = "parts", !.parts = @ + 1]
    /\ UNCHANGED parseOutcome
    /\ UNCHANGED <<trainVars, colmapVars, connVars>>

\* A training process writes a line in the shape of the example.
WriteShape(n, mantissa, decimals) ==
    /\ ~parseOutcome.done
    /\ parseOrigin.kind = "none"
    /\ parseLine' = Shape(n, mantissa, decimals)
    /\ parseOrigin' = [kind |-> "shape", parts |-> 0, iteration |-> n,
                  mantissa |-> mantissa, decimals |-> decimals]
    /\ UNCHANGED parseOutcome
    /\ UNCHANGED <<trainVars, colmapVars, connVars>>

\* _parse_training_output is called with the line.
Parse ==
    /\ ~parseOutcome.done
    /\ parseOutcome' = [done |-> TRUE,
                        raises |-> parse_training_output(parseLine).raises,
                        value |-> parse_training_output(parseLine).value]
    /\ UNCHANGED <<parseLine, parseOrigin>>
    /\ UNCHANGED <<trainVars, colmapVars, connVars>>

ParseNext ==
    \/ \E part \in Parts : WritePart(part)
    \/ \E n \in Iterations, mantissa \in Mantissas, decimals \in Decimals :
          WriteShape(n, mantissa, decimals)
    \/ Parse

(***************************************************************************)
(* The specifications: each runs one part of the backend from the state    *)
(* after construction, the other parts standing still.                     *)
(***************************************************************************)
Init == TrainInit /\ ColmapInit /\ ConnInit /\ ParseInit

SpecTrain == Init /\ [][TrainNext]_vars

\* The event loop runs a coroutine whose await has completed and fires a
\* timer that is due; the kernel reports the exit of a dead process and
\* the end of its stdout.  Nothing makes a process exit of its own, read
\* its output or free a held stderr.
StopFairness ==
    /\ \A p \in Projects : /\ WF_vars(StopWaitReturned(p))
                            /\ WF_vars(StopTimeout(p))
                            /\ WF_vars(StopKilledReturned(p))
    /\ \A j \in Procs : /\ WF_vars(ProcessExited(j))
                        /\ WF_vars(PipeConnectionLost(j))

SpecTrainFair == Init /\ [][TrainNext]_vars /\ StopFairness

\* The monitoring routines on their own, with the exit status of their
\* processes followed and no control call.
MonitorNext ==
    \/ \E p \in Projects : StartSpawn(p, p)
    \/ \E j \in Procs : StartRegister(j)
    \/ \E j \in Procs : ProcWrite(j, MaxMonitored)
    \/ \E j \in Procs : StderrFills(j)
    \/ \E j \in Procs, status \in TrainingExitCodes : ProcExit(j, status)
    \/ \E j \in Procs : ProcessExited(j)
    \/ \E j \in Procs : PipeConnectionLost(j)
    \/ \E j \in Procs : MonReadLine(j)
    \/ \E j \in Procs : MonLog(j)
    \/ \E j \in Procs : MonEOF(j)
    \/ \E j \in Procs : MonWaitReturned(j)

SpecMonitor == Init /\ [][MonitorNext]_vars

\* The train route and the status route, with the project name of the URL
\* and the scene_name of the configuration chosen apart, and the jobs
\* running to their end.
RoutesNext ==
    \/ \E project_name \in Projects : GetStatus(project_name)
    \/ \E p \in Projects, project_name \in Projects :
          StartSpawn(p, project_name)
    \/ \E j \in Procs : StartRegister(j)
    \/ \E p \in Projects : StartFails(p)
    \/ \E j \in Procs : ProcExit(j, NotFollowed)
    \/ \E j \in Procs : ProcessExited(j)
    \/ \E j \in Procs : PipeConnectionLost(j)
    \/ \E j \in Procs : MonEOF(j)
    \/ \E j \in Procs : MonWaitReturned(j)

SpecRoutes == Init /\ [][RoutesNext]_vars

SpecParse == Init /\ [][ParseNext]_vars

SpecColmap == Init /\ [][ColmapNext]_vars

SpecBroadcast == Init /\ [][ConnNext]_vars

SpecDelivery == Init /\ [][DeliveryNext]_vars

\* The event loop runs a coroutine whose await has completed.  Nothing
\* makes a client read, write or close.
ConnFairness ==
    /\ WF_vars(BroadcastSendReturns)
    /\ \A w \in Sockets :
           /\ WF_vars(connect(w))
           /\ WF_vars(ReceiveDisconnect(w))
           /\ WF_vars(ReceiveText(w))
           /\ WF_vars(ReceiveBinary(w))
           /\ \A disconnected \in BOOLEAN :
                  WF_vars(SendHeartbeat(w, disconnected))

SpecBroadcastFair == Init /\ [][ConnNext]_vars /\ ConnFairness

(***************************************************************************)
(* Properties of the training manager.                                     *)
(***************************************************************************)
Active == {"running", "paused"}
Terminal == {"completed", "stopped", "error"}

\* C1: a start_training call for a project whose record is running or
\* paused is rejected: it raises, no process is spawned for it, and the
\* record of the project stays as it was.
C1_SecondStartRejected ==
    \A p \in Projects :
        (last.op = "start" /\ last.proj = p /\ last.pre.status \in Active)
        => /\ last.res = "raise"
           /\ get_status(p) = last.pre
           /\ ~\E j \in Procs : procProject[j] = p /\ mon[j] = "spawning"

\* C2: a stop_training call that returns leaves the status "stopped", and
\* a stop_training call that finds the status "stopped" (only a returned
\* stop_training call sets it) does not raise.
C2_StopIdempotent ==
    \A p \in Projects :
        (last.op = "stop" /\ last.proj = p)
        => /\ (last.res = "ok" /\ p \in DOMAIN active_trainings
                  => active_trainings[p].status = "stopped")
           /\ (last.from = "stopped" => last.res # "raise")

\* C3 as claimed: when resume_training returns after a pause_training call
\* that found the job running, the status is "running" and the iteration
\* and loss are those the pause_training call found.
C3_ResumeRestoresSnapshot ==
    \A p \in Projects :
        (last.op = "resume" /\ last.proj = p /\ last.res = "ok"
            /\ pausedAt[p].status = "running")
        => /\ get_status(p).status = "running"
           /\ get_status(p).iteration = pausedAt[p].iteration
           /\ get_status(p).loss = pausedAt[p].loss

\* C3 as amended: when resume_training returns after a pause_training call
\* that found the job running, the status is "running"; and neither a
\* pause_training nor a resume_training call changes the iteration and
\* loss of the record it acts on.
C3_PauseResumeFrame ==
    \A p \in Projects :
        /\ (last.op = "resume" /\ last.proj = p /\ last.res = "ok"
                /\ pausedAt[p].status = "running")
           => get_status(p).status = "running"
        /\ (last.op \in {"pause", "resume"} /\ last.proj = p)
           => /\ get_status(p).iteration = last.pre.iteration
              /\ get_status(p).loss = last.pre.loss

\* C3 witness: resume_training returned after a pause_training call on a
\* running job that had recorded a line.
C3_Witness ==
    \E p \in Projects :
        /\ last.op = "resume" /\ last.proj = p /\ last.res = "ok"
        /\ pausedAt[p].status = "running"
        /\ pausedAt[p].iteration = 1
        /\ last.pre.status = "paused"
        /\ get_status(p).status = "running"

\* The type of the event that announces a terminal status.
AnnouncedBy(status) ==
    CASE status = "completed" -> "training_complete"
      [] status = "error" -> "training_error"
      [] OTHER -> "training_stopped"

\* C6: whenever the record of a project is completed, stopped or in error,
\* an event of that project announcing that status has been handed to
\* broadcast.
C6_TerminalStatusPublished ==
    \A p \in DOMAIN active_trainings :
        active_trainings[p].status \in Terminal
        => \E event \in BagToSet(published) :
               /\ event.type = AnnouncedBy(active_trainings[p].status)
               /\ event.project = p

\* C7: a pause_training call that finds the project in any status but
\* "running" raises, delivers no signal and leaves the record as it was.
C7_PauseOnlyWhenRunning ==
    \A p \in Projects :
        (last.op = "pause" /\ last.proj = p /\ last.pre.status # "running")
        => /\ last.res = "raise"
           /\ ~last.sig
           /\ get_status(p) = last.pre

\* C8: a resume_training call that finds a job completed, stopped or in
\* error leaves its status as it was: resume never turns a terminal job
\* back to "running".
C8_TerminalNeverResumed ==
    \A p \in Projects :
        (last.op = "resume" /\ last.proj = p /\ last.pre.status \in Terminal)
        => get_status(p).status = last.pre.status

\* C9: when a stop_training call that found the job running or paused
\* returns, by either path, the status of the project is "stopped".
C9_StopReturnsStopped ==
    \A p \in Projects :
        (last.op = "stop" /\ last.proj = p /\ last.res = "ok"
            /\ last.from \in Active)
        => get_status(p).status = "stopped"

\* C9 witness: stop_training returned for a paused job after the grace
\* period ran out and the process was killed.
C9_Witness ==
    \E p \in Projects :
        /\ last.op = "stop" /\ last.proj = p /\ last.res = "ok"
        /\ last.from = "paused" /\ last.via = "forced"
        /\ last.pre.status = "paused"
        /\ procState[last.pre.process] = "closed"
        /\ get_status(p).status = "stopped"

\* C10: a stop_training call that finds the job completed, stopped or in
\* error does not raise, delivers no signal and, when it returns, leaves
\* the status it found.
C10_StopOnTerminalIsNoOp ==
    \A p \in Projects :
        (last.op = "stop" /\ last.proj = p /\ last.from \in Terminal)
        => /\ last.res # "raise"
           /\ ~last.sig
           /\ (last.res = "ok" => get_status(p).status = last.from)

\* C11: a stop_training call that found the job running or paused and
\* is awaiting the exit of the process eventually returns.
C11_StopEventuallyReturns ==
    \A p \in Projects :
        (stopCall[p].pc # "idle" /\ stopCall[p].from \in Active)
        ~> (stopCall[p].pc = "idle")

\* C21: when a monitoring routine ends, it has set the status of its
\* project to "completed" and published training_complete if the stream
\* had ended and the process had exited with code 0, and otherwise (the
\* process failed, or the routine hit an exception) it has set the status
\* to "error" and published training_error with the message.
C21_ExitStatusDecidesOutcome ==
    [][\A j \in Procs :
          (mon[j] \in {"read", "wait"} /\ mon'[j] = "done")
          => LET p == procProject[j] IN
             IF stdout[j] = <<>> /\ exitStatus[j] = <<0>>
             THEN /\ active_trainings'[p].status = "completed"
                  /\ published' = Publish(Event("training_complete", p))
             ELSE /\ active_trainings'[p].status = "error"
                  /\ published' = Publish(ErrorEvent(p))]_vars

\* The line as the process wrote it, its terminator aside.
Unterminated(s) ==
    IF s # <<>> /\ s[Len(s)] = "\n" THEN SubSeq(s, 1, Len(s) - 1) ELSE s

\* The monitoring routine of process j takes a line off the stream.
TakesLine(j) == mon[j] = "read" /\ Len(stdout'[j]) < Len(stdout[j])

\* What the routine of process j does with a line whose log event carries
\* the given text: a line that parses updates iteration and loss and
\* publishes the progress event, the log event still to come; any other
\* line publishes the log event alone.  The pending log event is
\* published as the next step of the routine.
HandlesLine(j, text) ==
    LET p == procProject[j]
        line == Head(stdout[j])
        progress == Parsed[line].value
    IN  IF progress # NoProgress
        THEN /\ active_trainings'[p].iteration = progress.iteration
             /\ active_trainings'[p].loss = progress.loss
             /\ published' = Publish(ProgressEvent(p, progress))
             /\ mon'[j] = "log" /\ monLine'[j] = line
        ELSE /\ published' = Publish(LogEvent(p, text[line]))
             /\ active_trainings' = active_trainings
             /\ mon'[j] = "read"

PublishesPendingLog(j, text) ==
    /\ published' = Publish(LogEvent(procProject[j], text[monLine[j]]))
    /\ active_trainings' = active_trainings
    /\ mon'[j] = "read"

C24_FaultBecomesErrorEvent ==
    [][\A j \in Procs :
          (TakesLine(j) /\ Head(stdout[j]) = "undecodable")
          => LET p == procProject[j] IN
             /\ active_trainings'[p].status = "error"
             /\ published' = Publish(ErrorEvent(p))
             /\ mon'[j] = "done"]_vars

\* A routine has ended on a fault, with the status and the event.
C24_FaultConverted ==
    \E j \in Procs :
        /\ mon[j] = "done"
        /\ active_trainings[procProject[j]].status = "error"
        /\ CopiesIn(ErrorEvent(procProject[j]), published) = 1

\* A start_training call fails in the step taken.
StartRaises == calls' = calls + 1 /\ last'.op = "start" /\ last'.res = "raise"

\* C29: a start_training call that fails raises to its caller, publishes
\* one training_error event, creates no monitoring routine and no process,
\* and leaves the registry as it was.
C29_FailedStartLeavesRegistry ==
    [][StartRaises
       => /\ published' = Publish(ErrorEvent(NoProject))
          /\ active_trainings' = active_trainings
          /\ mon' = mon
          /\ procState' = procState]_vars

\* A start for a project with a running job has failed: the record is the
\* one found, and the event is published.
C29_FailedOverRunningJob ==
    /\ last.op = "start" /\ last.res = "raise"
    /\ last.pre.status = "running"
    /\ get_status(last.proj) = last.pre
    /\ CopiesIn(ErrorEvent(NoProject), published) >= 1

\* C30: once the train route for a project has started a job, get_status
\* for that project reports the job, not "not_started", whatever the
\* scene_name of the configuration.
C30_StatusOfStartedProject ==
    \A j \in Procs :
        mon[j] \notin {"unborn", "spawning"}
        => get_status(project_path[j]).status # "not_started"

\* The monitoring routine of process j takes the step: it takes a line
\* off the stream, or moves on from where it was.
MonitorSteps(j) ==
    /\ mon[j] \in {"read", "log", "wait"}
    /\ TakesLine(j) \/ mon'[j] # mon[j]

\* C31: a step of a monitoring routine whose project holds the record of
\* another, newer job leaves the status, iteration and loss of that
\* record as they are.
C31_MonitorUpdatesOwnJobOnly ==
    [][\A j \in Procs :
          LET p == procProject[j] IN
          (MonitorSteps(j) /\ active_trainings[p].process # j)
          => /\ active_trainings'[p].status = active_trainings[p].status
             /\ active_trainings'[p].iteration = active_trainings[p].iteration
             /\ active_trainings'[p].loss = active_trainings[p].loss]_vars

\* C32: once stop_training has set the record of a job to "stopped", a
\* step of the monitoring routine of that job leaves the status "stopped"
\* and publishes no training_complete event for the project.
C32_StoppedStaysStopped ==
    [][\A j \in Procs :
          LET p == procProject[j]
              complete == Event("training_complete", p)
          IN  (/\ MonitorSteps(j)
               /\ active_trainings[p].process = j
               /\ active_trainings[p].status = "stopped")
              => /\ active_trainings'[p].status = "stopped"
                 /\ CopiesIn(complete, published') =
                        CopiesIn(complete, published)]_vars

\* C19: a get_status call leaves the record of its project as it was; for
\* a project with a record it returns the status, iteration and loss of
\* the record and a start time, and for a project without one it returns
\* status "not_started".
C19_GetStatusPureRead ==
    \A p \in Projects :
        (last.op = "status" /\ last.proj = p)
        => /\ get_status(p) = last.pre
           /\ IF p \in DOMAIN active_trainings
              THEN /\ status_reply.status = active_trainings[p].status
                   /\ status_reply.iteration = active_trainings[p].iteration
                   /\ status_reply.loss = active_trainings[p].loss
                   /\ "start_time" \in DOMAIN status_reply
              ELSE status_reply.status = "not_started"

(***************************************************************************)
(* Properties of the COLMAP pipeline.                                      *)
(***************************************************************************)
StageOrder == <<"feature_extractor", "exhaustive_matcher", "mapper",
                "image_undistorter">>

\* C4: the commands launched are the stages in their declared order, and
\* once the command at position n has exited with a non-zero code nothing
\* is launched after it, no statistics are computed and process raises.
C4_StagesInOrderStopAtFailure ==
    /\ Len(launched) <= Len(StageOrder)
    /\ \A i \in DOMAIN launched : launched[i].name = StageOrder[i]
    /\ Len(returncodes) <= Len(launched)
    /\ \A n \in DOMAIN returncodes :
           returncodes[n] # 0
           => /\ Len(launched) = n
              /\ Len(returncodes) = n
              /\ ~statistics.computed
              /\ colmapPc = "raised"

\* C4 witness: the mapper, third of the stages, was killed by a signal
\* after two stages that succeeded.
C4_Witness ==
    /\ Len(returncodes) = 3
    /\ returncodes[1] = 0 /\ returncodes[2] = 0 /\ returncodes[3] < 0
    /\ Len(launched) = 3
    /\ colmapPc = "raised"

\* C17: the matcher is launched with max_num_matches 32768 for "high",
\* 16384 for "medium", 8192 for "low", and 32768 for every other tier name.
C17_MatchesFromTierTable ==
    \A i \in DOMAIN launched :
        launched[i].name = "exhaustive_matcher"
        => launched[i].param =
               IF colmapArgs.quality = "medium" THEN "16384"
               ELSE IF colmapArgs.quality = "low" THEN "8192"
               ELSE "32768"

\* C17 witness: the matcher was launched for the tier "ultra" with 32768.
C17_Witness ==
    /\ colmapArgs.quality = "ultra"
    /\ \E i \in DOMAIN launched :
           launched[i] = Command("exhaustive_matcher", "32768")

\* The number of lines of a file whose first character is not "#".
Uncommented(file) ==
    IF ~file.exists THEN 0
    ELSE Cardinality({i \in 1..Len(file.lines) :
                         file.lines[i] = <<>> \/ Head(file.lines[i]) # "#"})

\* C18: the statistics of a reconstruction folder that is there, with
\* files that can be read, are computed without raising; num_points and
\* num_cameras are the numbers of lines of the points3D and cameras files
\* that do not start with "#", and each of the three counts is 0 when its
\* file is absent.
C18_StatisticsCountDataLines ==
    (/\ statistics.computed
     /\ statistics_path # <<>>
     /\ \A file \in {reconstruction.cameras, reconstruction.images,
                       reconstruction.points} : file.exists => file.readable)
    => /\ statistics.value # <<>>
       /\ statistics.value.num_points = Uncommented(reconstruction.points)
       /\ statistics.value.num_cameras = Uncommented(reconstruction.cameras)
       /\ ~reconstruction.images.exists => statistics.value.num_images = 0

\* C18 witness: 5 data lines in points3D, 2 in cameras and no images file
\* gave num_points = 5, num_cameras = 2, num_images = 0.
C18_Witness ==
    /\ statistics.computed
    /\ ~reconstruction.images.exists
    /\ Len(reconstruction.points.lines) = 6
    /\ Len(reconstruction.cameras.lines) = 4
    /\ statistics.value =
           [num_cameras |-> 2, num_images |-> 0, num_points |-> 5]

\* The first entry of the sorted listing; the entries are single digits.
FirstSorted(listing) ==
    LET entries == {listing[i] : i \in DOMAIN listing}
    IN  CHOOSE e \in entries :
            \A f \in entries : DigitValue(e) <= DigitValue(f)

\* C25: the undistorter is launched on the folder "0" of the sparse
\* directory when that exists, and otherwise on the first entry of the
\* sorted listing of the directory, whatever the order of the listing.
C25_FolderFromSortedListing ==
    \A i \in DOMAIN launched :
        launched[i].name = "image_undistorter"
        => launched[i].param =
               IF \E k \in DOMAIN sparse_path : sparse_path[k] = "0"
               THEN "0"
               ELSE FirstSorted(sparse_path)

\* C26: when the mapper has succeeded and left the sparse directory
\* without entries, the undistorter is not launched and process raises:
\* no statistics, no success result.
C26_EmptySparseDirectoryRaises ==
    (Len(returncodes) >= 3 /\ returncodes[3] = 0 /\ sparse_path = <<>>)
    => /\ colmapPc = "raised"
       /\ Len(launched) = 3
       /\ Len(returncodes) = 3
       /\ ~statistics.computed

\* The mapper exited with code 0 and left nothing; process has raised.
C26_RaisedOnEmptyDirectory ==
    /\ Len(returncodes) = 3 /\ returncodes[3] = 0
    /\ sparse_path = <<>>
    /\ colmapPc = "raised"

\* C27: when the four stages have exited with code 0, process has
\* returned with statistics: the three counts, or the empty result when
\* the reconstruction folder is missing or a statistics file cannot be
\* read.
C27_SuccessWhateverTheStatistics ==
    (Len(returncodes) = 4 /\ \A n \in 1..4 : returncodes[n] = 0)
    => /\ colmapPc = "returned"
       /\ statistics.computed
       /\ IF \/ statistics_path = <<>>
             \/ \E file \in {reconstruction.cameras, reconstruction.images,
                              reconstruction.points} :
                    file.exists /\ ~file.readable
          THEN statistics.value = <<>>
          ELSE DOMAIN statistics.value =
                   {"num_cameras", "num_images", "num_points"}

\* The four stages succeeded, the reconstruction folder was gone when the
\* statistics were computed, and process returned the empty statistics.
C27_ReturnedWithoutFolder ==
    /\ Len(returncodes) = 4 /\ \A n \in 1..4 : returncodes[n] = 0
    /\ statistics_path = <<>>
    /\ colmapPc = "returned"
    /\ statistics.value = <<>>

DenseOrder == <<"patch_match_stereo", "stereo_fusion">>

\* C28: dense_reconstruction launches stereo matching and then stereo
\* fusion, and when stereo matching has exited with a non-zero code the
\* fusion is not launched and the call has raised.
C28_FusionAfterMatchingSucceeds ==
    /\ Len(denseLaunched) <= Len(DenseOrder)
    /\ \A i \in DOMAIN denseLaunched : denseLaunched[i].name = DenseOrder[i]
    /\ Len(denseCodes) <= Len(denseLaunched)
    /\ (Len(denseCodes) >= 1 /\ denseCodes[1] # 0)
       => /\ Len(denseLaunched) = 1
          /\ Len(denseCodes) = 1
          /\ densePc = "raised"

\* Stereo matching failed and the call raised.
C28_MatchingFailed ==
    /\ Len(denseCodes) = 1 /\ denseCodes[1] = 1
    /\ denseLaunched = <<Command("patch_match_stereo", "0")>>
    /\ densePc = "raised"

(***************************************************************************)
(* Properties of the connection manager.                                   *)
(***************************************************************************)
\* C5: of two registered subscribers one is closed when broadcast is
\* called; when the call has returned, the other one, still open, has
\* received the event.
C5_OtherSubscriberReceives ==
    \A b \in broadcasts : \A w \in b.audience :
        ((\E c \in b.closed : c # w) /\ sock[w] = "open")
        => \E k \in DOMAIN received[w] :
               received[w][k] = Msg("event", b.event)

\* C12: when broadcast has returned, a subscriber whose send failed during
\* the call is no longer in the subscriber list.
C12_FailedSubscriberUnregistered ==
    \A b \in broadcasts : \A w \in b.failed :
        ~\E k \in DOMAIN active_connections : active_connections[k] = w

\* C13: a broadcast call suspended in a send eventually returns to its
\* caller, and every other subscriber it was called with, while it stays
\* open and registered, eventually has the event.
C13_SlowSubscriberIndependent ==
    /\ (bc.pc = "send") ~> (bc.pc = "idle")
    /\ \A w \in Sockets : \A e \in 1..MaxEvents :
           (bc.pc = "send" /\ bc.event = e /\ w \in bc.audience
                /\ w # bc.connection)
           ~> \/ sock[w] # "open"
              \/ \E k \in DOMAIN received[w] : received[w][k] = Msg("event", e)

\* Whether a client has received the event of the given number.
Has(w, e) == \E k \in DOMAIN received[w] : received[w][k] = Msg("event", e)

\* C23: the events of a job are numbered in the order of the lines they
\* come from, the terminal event last.  A subscriber that was registered
\* when each of two events was broadcast, and is still registered and
\* open, receives the earlier event before the later one.
C23_DeliveredInEmissionOrder ==
    \A w \in Sockets : \A b \in broadcasts : \A c \in broadcasts :
        (/\ b.event < c.event
         /\ w \in b.audience /\ w \in c.audience
         /\ sock[w] = "open"
         /\ \E k \in DOMAIN active_connections : active_connections[k] = w
         /\ Has(w, c.event))
        => \E k \in DOMAIN received[w] : \E h \in DOMAIN received[w] :
               /\ k < h
               /\ received[w][k] = Msg("event", b.event)
               /\ received[w][h] = Msg("event", c.event)

\* How many times the event of the given number is among the messages.
Copies(messages, e) ==
    Cardinality({k \in DOMAIN messages : messages[k] = Msg("event", e)})

\* C33: when a broadcast call returns, every subscriber that was
\* registered when it was called, is registered still and has stayed open
\* has received the event exactly once, whatever was added to or removed
\* from the subscriber list during the call.
C33_ExactlyOnceUnderMutation ==
    [][(bc.pc = "send" /\ bc'.pc = "idle")
       => \A w \in bc.audience :
              (/\ sock[w] = "open"
               /\ \E k \in DOMAIN active_connections' :
                      active_connections'[k] = w)
              => Copies(received'[w], bc.event) = 1]_vars

\* C14: a connection whose websocket endpoint handler has ended is not in
\* the subscriber list.
C14_EndedHandlerUnregistered ==
    \A w \in Sockets :
        handler[w] = "ended"
        => ~\E k \in DOMAIN active_connections : active_connections[k] = w

\* The texts the heartbeats delivered to a client answer, in the order of
\* their delivery.
RECURSIVE Answered(_)
Answered(messages) ==
    IF messages = <<>> THEN <<>>
    ELSE IF Head(messages).type = "heartbeat"
         THEN <<Head(messages).n>> \o Answered(Tail(messages))
         ELSE Answered(Tail(messages))

\* The texts of a client the endpoint has yet to receive.
Unreceived(w) ==
    Cardinality({k \in DOMAIN inbox[w] : inbox[w][k] # Binary})

\* The texts of a client the endpoint has received and not yet answered.
Unanswered(w) == IF handler[w] = "send" THEN 1 ELSE 0

\* C20 (safety): the heartbeats a client has are the answers to the first
\* of its texts, one for each and in their order; and while the connection
\* is open they answer all its texts but those the endpoint has yet to
\* receive or is about to answer.
C20_OneHeartbeatPerTextInOrder ==
    \A w \in Sockets :
        /\ Len(Answered(received[w])) <= Len(textsOf[w])
        /\ Answered(received[w]) =
               SubSeq(textsOf[w], 1, Len(Answered(received[w])))
        /\ sock[w] = "open"
           => Len(Answered(received[w])) + Unanswered(w) + Unreceived(w)
                  = Len(textsOf[w])

\* C20: every text a client sends on an open connection is answered with
\* one heartbeat, in the order of the texts, unless the connection stops
\* being open.
C20_EveryTextAnswered ==
    /\ []C20_OneHeartbeatPerTextInOrder
    /\ \A w \in Sockets : \A text \in 1..MaxTexts :
           (\E k \in DOMAIN textsOf[w] : textsOf[w][k] = text)
           ~> \/ sock[w] # "open"
              \/ \E k \in DOMAIN received[w] :
                     received[w][k] = heartbeat(text)

\* C20 witness: a client has sent two texts and has the two heartbeats,
\* on a connection that is still open.
C20_Witness ==
    \E w \in Sockets :
        /\ sock[w] = "open"
        /\ Len(textsOf[w]) = 2
        /\ Answered(received[w]) = textsOf[w]

(***************************************************************************)
(* Properties of _parse_training_output.                                   *)
(***************************************************************************)
\* C15: for a line "iter: N, loss: F" the function returns the record of
\* the integer N and the loss F, and for a line without both markers it
\* returns no record.
C15_ParsesShapeOnly ==
    /\ (parseOutcome.done /\ parseOrigin.kind = "shape")
       => /\ ~parseOutcome.raises
          /\ parseOutcome.value =
                 [iteration |-> parseOrigin.iteration,
                  loss |-> Normal(parseOrigin.mantissa, -parseOrigin.decimals)]
    /\ (parseOutcome.done /\ ~(In(ITER, parseLine) /\ In(LOSS, parseLine)))
       => /\ ~parseOutcome.raises
          /\ parseOutcome.value = NoProgress

\* C15 witness: "iter: 1000, loss: 0.0234" was parsed to iteration 1000
\* and loss 0.0234.
C15_Witness ==
    /\ parseOutcome.done
    /\ parseOrigin.kind = "shape"
    /\ parseLine = Shape(1000, 234, 4)
    /\ parseOutcome.value = [iteration |-> 1000, loss |-> Float(234, -4)]

\* The text that follows the first occurrence of a marker in a part.
AfterMarker(part, marker) ==
    LET i == Min({h \in 1..(Len(part) - Len(marker) + 1) :
                     \A k \in 1..Len(marker) : part[h + k - 1] = marker[k]})
    IN  SubSeq(part, i + Len(marker), Len(part))

\* The field of a marker has no delimiter after the marker.
NoDelimiter(part, marker) == Places(AfterMarker(part, marker), ":") = {}

\* The text of the field: what follows the delimiter of the marker.
FieldText(part, marker) ==
    LET after == AfterMarker(part, marker)
    IN  SubSeq(after, Min(Places(after, ":")) + 1, Len(after))

\* A part whose iteration or loss field has no delimiter or no valid
\* number.
Malformed(part) ==
    \/ /\ In(ITER, part)
       /\ NoDelimiter(part, ITER) \/ IntRaises(FieldText(part, ITER))
    \/ /\ In(LOSS, part)
       /\ NoDelimiter(part, LOSS) \/ FloatRaises(FieldText(part, LOSS))

\* C16: the function never raises, and it returns no record for a line
\* with a part whose iteration or loss field is missing its delimiter or
\* is not a valid number.
C16_TotalAndStrict ==
    parseOutcome.done
    => /\ ~parseOutcome.raises
       /\ (\E k \in 1..Len(split(parseLine, ",")) :
              Malformed(split(parseLine, ",")[k]))
          => parseOutcome.value = NoProgress

====
